---- MODULE Spec2Model ----
EXTENDS Integers, Sequences, FiniteSets, TLC

\* Python strings are modelled as sequences of one-character strings.
\* Python None is a one-element sequence whose element is not a character,
\* so it differs from every string.
NoneV == <<"<None>">>
\* max_links=None is modelled by -1 (all other values are >= 0).
NoMax == -1

\* bounds
MaxPages == 2
MaxMax == 2

NA == <<"N", "/", "A">>
LinkA == <<"A">>
LinkB == <<"B">>
LinkC == <<"C">>
LinkD == <<"D">>

formats == <<<<"H", "a", "r", "d", "c", "o", "v", "e", "r">>,
             <<"P", "a", "p", "e", "r", "b", "a", "c", "k">>,
             <<"L", "i", "b", "r", "a", "r", "y", " ", "B", "i", "n", "d", "i", "n", "g">>,
             <<"L", "i", "k", "e", " ", "N", "e", "w">>,
             <<"V", "e", "r", "y", " ", "G", "o", "o", "d">>,
             <<"G", "o", "o", "d">>,
             <<"A", "c", "c", "e", "p", "t", "a", "b", "l", "e">>,
             <<"N", "e", "w">>>>
FormatKeys == <<"Hardcover", "Paperback", "Library Binding", "Like New",
                "Very Good", "Good", "Acceptable", "New">>

\* ---------------------------------------------------------------------
\* Python string helpers (str.startswith, in, replace, strip, truthiness)
\* ---------------------------------------------------------------------
Truthy(s) == s /= NoneV /\ s /= <<>>
InSeq(x, s) == \E i \in 1..Len(s) : s[i] = x
StartsWith(t, p) == Len(p) <= Len(t) /\ SubSeq(t, 1, Len(p)) = p
Contains(t, p) == \E i \in 1..(Len(t) - Len(p) + 1) : SubSeq(t, i, i + Len(p) - 1) = p
RECURSIVE Replace(_, _)
Replace(t, p) ==
  IF Len(t) < Len(p) THEN t
  ELSE IF SubSeq(t, 1, Len(p)) = p THEN Replace(SubSeq(t, Len(p) + 1, Len(t)), p)
  ELSE <<Head(t)>> \o Replace(Tail(t), p)
\* characters c with c.isspace(), i.e. what str.strip() removes. The ones
\* without a TLA+ escape (U+000B, U+001C..U+001F, U+0085, U+00A0, U+1680) are
\* written literally; U+2000..U+200A, U+2028, U+2029, U+202F, U+205F and
\* U+3000, which the parser does not accept in a string, are named tokens.
Whitespace == {" ", "\t", "\n", "\r", "\f", "", "", "", "", "", "", " ", " ",
               "<U+2000>", "<U+2001>", "<U+2002>", "<U+2003>", "<U+2004>",
               "<U+2005>", "<U+2006>", "<U+2007>", "<U+2008>", "<U+2009>",
               "<U+200A>", "<U+2028>", "<U+2029>", "<U+202F>", "<U+205F>",
               "<U+3000>"}
RECURSIVE LStrip(_)
LStrip(t) == IF t /= <<>> /\ Head(t) \in Whitespace THEN LStrip(Tail(t)) ELSE t
RECURSIVE RStrip(_)
RStrip(t) == IF t /= <<>> /\ t[Len(t)] \in Whitespace THEN RStrip(SubSeq(t, 1, Len(t) - 1)) ELSE t
Strip(t) == RStrip(LStrip(t))
Min(a, b) == IF a < b THEN a ELSE b

\* ---------------------------------------------------------------------
\* get_book_links: the per-page for-loop over link elements (lines 47-55).
\* Returns <<book_links, returned_early, hrefs_read>>.
\* ---------------------------------------------------------------------
\* variant without the membership test of line 49
RECURSIVE CollectItemsNoDedup(_, _, _, _)
CollectItemsNoDedup(bl, items, m, read) ==
  IF items = <<>> THEN <<bl, FALSE, read>>
  ELSE LET h == Head(items)
           rd == Append(read, h)
       IN IF Truthy(h)
          THEN LET nb == Append(bl, h)
               IN IF m /= NoMax /\ Len(nb) >= m
                  THEN <<nb, TRUE, rd>>
                  ELSE CollectItemsNoDedup(nb, Tail(items), m, rd)
          ELSE CollectItemsNoDedup(bl, Tail(items), m, rd)

RECURSIVE CollectItems(_, _, _, _)
CollectItems(bl, items, m, read) ==
  IF items = <<>> THEN <<bl, FALSE, read>>
  ELSE LET h == Head(items)
           rd == Append(read, h)
       IN IF Truthy(h) /\ ~InSeq(h, bl)
          THEN LET nb == Append(bl, h)
               IN IF m /= NoMax /\ Len(nb) >= m
                  THEN <<nb, TRUE, rd>>
                  ELSE CollectItems(nb, Tail(items), m, rd)
          ELSE CollectItems(bl, Tail(items), m, rd)

\* ---------------------------------------------------------------------
\* scrape_book_details: price parsing (lines 124-141)
\* ---------------------------------------------------------------------
\* variant keeping the whitespace around the price
ApplyFmtNoStrip(pd, text, i) ==
  IF StartsWith(text, formats[i]) \/ Contains(text, formats[i])
  THEN LET clean == Replace(text, formats[i])
       IN [pd EXCEPT ![i] = IF clean /= <<>> THEN clean ELSE NA]
  ELSE pd

\* one format test/assignment for one button text (lines 136-139)
ApplyFmt(pd, text, i) ==
  IF StartsWith(text, formats[i]) \/ Contains(text, formats[i])
  THEN LET clean == Strip(Replace(text, formats[i]))
       IN [pd EXCEPT ![i] = IF clean /= <<>> THEN clean ELSE NA]
  ELSE pd
RECURSIVE ApplyFmts(_, _, _)
ApplyFmts(pd, text, i) == IF i > 8 THEN pd ELSE ApplyFmts(ApplyFmt(pd, text, i), text, i + 1)
\* loop over price buttons; failAt = k > 0 means reading button k raises,
\* which is swallowed by the except at line 140
RECURSIVE PriceLoop(_, _, _, _)
PriceLoop(pd, btns, k, failAt) ==
  IF k > Len(btns) \/ k = failAt THEN pd
  ELSE PriceLoop(ApplyFmts(pd, Strip(btns[k]), 1), btns, k + 1, failAt)
Prices(btns, failAt) == PriceLoop([i \in 1..8 |-> NA], btns, 1, failAt)

\* variant of the row that drops the last format
MakeRowShort(title, rating, link, pd) ==
  <<<<"Title", title>>, <<"Rating", rating>>, <<"URL", link>>>>
  \o [i \in 1..7 |-> <<FormatKeys[i], pd[i]>>]

\* row = {"Title":..., "Rating":..., "URL":..., **prices_dict} (lines 145-150)
MakeRow(title, rating, link, pd) ==
  <<<<"Title", title>>, <<"Rating", rating>>, <<"URL", link>>>>
  \o [i \in 1..8 |-> <<FormatKeys[i], pd[i]>>]

\* rating lookup (lines 117-122)
RatingOf(r) == CASE r = "raise" -> NA
                 [] r = "noattr" -> NoneV
                 [] r = "val" -> <<"4", ".", "5">>

TitleRaw == <<" ", "T", " ">>

\* button texts on detail pages
BtnVG5 == <<"V", "e", "r", "y", " ", "G", "o", "o", "d", " ", "$", "5">>
BtnG3 == <<"G", "o", "o", "d", " ", "$", "3">>
BtnP7 == <<"P", "a", "p", "e", "r", "b", "a", "c", "k", "\n", "$", "7", "">>
BtnLN4 == <<"L", "i", "k", "e", " ", "N", "e", "w", " ", "$", "4">>

\* ---------------------------------------------------------------------
\* save_to_csv (lines 161-172): csv.DictWriter rows
\* ---------------------------------------------------------------------
Keys(r) == [i \in 1..Len(r) |-> r[i][1]]
Lookup(r, k) == IF \E i \in 1..Len(r) : r[i][1] = k
                THEN (CHOOSE i \in 1..Len(r) : r[i][1] = k)
                ELSE 0
\* csv writes None as the empty string
Cell(v) == IF v = NoneV THEN <<>> ELSE v
\* variant writing the raw value without the None conversion
CsvRowRaw(r, header) == [j \in 1..Len(header) |->
                        IF Lookup(r, header[j]) = 0 THEN <<>>
                        ELSE r[Lookup(r, header[j])][2]]
CsvRow(r, header) == [j \in 1..Len(header) |->
                        IF Lookup(r, header[j]) = 0 THEN <<>>
                        ELSE Cell(r[Lookup(r, header[j])][2])]
\* DictWriter raises ValueError on keys not among the fieldnames
ExtraKeys(r, header) == \E i \in 1..Len(r) : ~InSeq(r[i][1], header)

\* ---------------------------------------------------------------------
\* inputs
\* ---------------------------------------------------------------------
PageItems == {<<>>, <<LinkA, LinkB, LinkC>>, <<LinkC, LinkD>>,
              <<LinkA, NoneV, LinkA>>, <<LinkB, <<>> >>}
CtlStates(p) == IF p < MaxPages THEN {"enabled", "disabled", "aria", "absent", "clickfail"}
                ELSE {"disabled", "aria", "absent"}
MaxValues == {NoMax} \cup 0..MaxMax
InputLists == {<<>>, <<LinkA>>, <<LinkA, LinkB>>, <<LinkA, LinkB, LinkC>>}
BtnCases == {[btns |-> <<>>, failAt |-> 0],
             [btns |-> <<BtnVG5, BtnG3>>, failAt |-> 0],
             [btns |-> <<BtnG3, BtnVG5>>, failAt |-> 0],
             [btns |-> <<BtnP7, BtnLN4>>, failAt |-> 0],
             [btns |-> <<BtnP7, BtnLN4>>, failAt |-> 2]}
Outcomes == {[kind |-> k, rating |-> "raise", btns |-> <<>>, failAt |-> 0] :
               k \in {"nav", "timeout", "titleread"}}
            \cup {[kind |-> "ok", rating |-> r, btns |-> b.btns, failAt |-> b.failAt] :
                    r \in {"raise", "noattr", "val"}, b \in BtnCases}

VARIABLES phase, maxl, book_links, cpc, page, clicks, ctl, reason, seen,
          links, idx, gets, outcomes, results, written, file

vars == <<phase, maxl, book_links, cpc, page, clicks, ctl, reason, seen,
          links, idx, gets, outcomes, results, written, file>>

Init ==
  /\ phase = "collect"
  /\ maxl \in MaxValues
  /\ book_links = <<>>
  /\ cpc = "items"
  /\ page = 1
  /\ clicks = 0
  /\ ctl = "none"
  /\ reason = "none"
  /\ seen = <<>>
  /\ links = <<>>
  /\ idx = 1
  /\ gets = 0
  /\ outcomes = <<>>
  /\ results = <<>>
  /\ written = FALSE
  /\ file = <<>>

\* variant returning an empty list when the presence wait fails
CollectPageDrop ==
  /\ phase = "collect" /\ cpc = "items"
  /\ \/ /\ cpc' = "returned" /\ reason' = "timeout"
        /\ book_links' = <<>> /\ UNCHANGED seen
     \/ \E items \in PageItems : \E k \in 0..Len(items) :
          LET res == CollectItems(book_links, IF k = 0 THEN items ELSE SubSeq(items, 1, k - 1),
                                  maxl, <<>>)
          IN /\ book_links' = res[1]
             /\ seen' = seen \o res[3]
             /\ IF res[2] THEN cpc' = "returned" /\ reason' = "max"
                ELSE IF k > 0 THEN cpc' = "returned" /\ reason' = "error"
                ELSE cpc' = "next" /\ reason' = reason
  /\ UNCHANGED <<phase, maxl, page, clicks, ctl, links, idx, gets, outcomes,
                 results, written, file>>

\* get_book_links lines 38-57: presence wait (its timeout is caught by the
\* outer except, lines 79-80), then the for-loop over items. k > 0 means that
\* reading the k-th element's href raises (e.g. a stale element); that
\* exception is also caught by the outer except and the function returns the
\* links appended so far.
CollectPage ==
  /\ phase = "collect" /\ cpc = "items"
  /\ \/ /\ cpc' = "returned" /\ reason' = "timeout"
        /\ UNCHANGED <<book_links, seen>>
     \/ \E items \in PageItems : \E k \in 0..Len(items) :
          LET res == CollectItems(book_links, IF k = 0 THEN items ELSE SubSeq(items, 1, k - 1),
                                  maxl, <<>>)
          IN /\ book_links' = res[1]
             /\ seen' = seen \o res[3]
             /\ IF res[2] THEN cpc' = "returned" /\ reason' = "max"
                ELSE IF k > 0 THEN cpc' = "returned" /\ reason' = "error"
                ELSE cpc' = "next" /\ reason' = reason
  /\ UNCHANGED <<phase, maxl, page, clicks, ctl, links, idx, gets, outcomes,
                 results, written, file>>

\* variant ignoring aria-disabled
CheckNextNoAria ==
  /\ phase = "collect" /\ cpc = "next"
  /\ \E c \in CtlStates(page) :
       /\ ctl' = c
       /\ CASE c \in {"enabled", "aria"} ->
                 clicks' = clicks + 1 /\ page' = page + 1 /\ cpc' = "items"
                 /\ reason' = reason
            [] c \in {"disabled", "absent", "clickfail"} ->
                 cpc' = "returned" /\ reason' = "nobutton" /\ UNCHANGED <<clicks, page>>
  /\ UNCHANGED <<phase, maxl, book_links, seen, links, idx, gets, outcomes,
                 results, written, file>>

\* get_book_links lines 60-77: next-button wait, disabled test, click
CheckNext ==
  /\ phase = "collect" /\ cpc = "next"
  /\ \E c \in CtlStates(page) :
       /\ ctl' = c
       /\ CASE c = "enabled" ->
                 clicks' = clicks + 1 /\ page' = page + 1 /\ cpc' = "items"
                 /\ reason' = reason
            [] c = "aria" ->
                 cpc' = "returned" /\ reason' = "last" /\ UNCHANGED <<clicks, page>>
            \* a disabled button is never clickable: the wait raises
            [] c \in {"disabled", "absent", "clickfail"} ->
                 cpc' = "returned" /\ reason' = "nobutton" /\ UNCHANGED <<clicks, page>>
  /\ UNCHANGED <<phase, maxl, book_links, seen, links, idx, gets, outcomes,
                 results, written, file>>

\* return of get_book_links (line 82)
CollectReturn ==
  /\ phase = "collect" /\ cpc = "returned"
  /\ phase' = "collected"
  /\ UNCHANGED <<maxl, book_links, cpc, page, clicks, ctl, reason, seen,
                 links, idx, gets, outcomes, results, written, file>>

\* entry of scrape_book_details: truncation to max_links (lines 100-102)
ScrapeStart ==
  /\ phase = "call"
  /\ links' = IF maxl /= NoMax THEN SubSeq(links, 1, Min(maxl, Len(links))) ELSE links
  /\ phase' = "scrape"
  /\ UNCHANGED <<maxl, book_links, cpc, page, clicks, ctl, reason, seen,
                 idx, gets, outcomes, results, written, file>>

\* variant where a failing link ends the loop
ScrapeLinkBreak ==
  /\ phase = "scrape" /\ idx <= Len(links)
  /\ \E o \in Outcomes :
       /\ outcomes' = Append(outcomes, o)
       /\ results' = IF o.kind = "ok"
                     THEN Append(results, MakeRow(Strip(TitleRaw), RatingOf(o.rating),
                                                  links[idx], Prices(o.btns, o.failAt)))
                     ELSE results
       /\ idx' = IF o.kind = "ok" THEN idx + 1 ELSE Len(links) + 1
  /\ gets' = gets + 1
  /\ UNCHANGED <<phase, maxl, book_links, cpc, page, clicks, ctl, reason, seen,
                 links, written, file>>

\* one iteration of the for-loop of scrape_book_details (lines 104-156)
ScrapeLink ==
  /\ phase = "scrape" /\ idx <= Len(links)
  /\ \E o \in Outcomes :
       /\ outcomes' = Append(outcomes, o)
       /\ results' = IF o.kind = "ok"
                     THEN Append(results, MakeRow(Strip(TitleRaw), RatingOf(o.rating),
                                                  links[idx], Prices(o.btns, o.failAt)))
                     ELSE results
  /\ gets' = gets + 1
  /\ idx' = idx + 1
  /\ UNCHANGED <<phase, maxl, book_links, cpc, page, clicks, ctl, reason, seen,
                 links, written, file>>

\* return of scrape_book_details and save_to_csv (lines 158-172)
Save ==
  /\ phase = "scrape" /\ idx > Len(links)
  /\ IF results = <<>>
     THEN phase' = "done" /\ UNCHANGED <<written, file>>
     ELSE LET header == Keys(results[1])
          IN IF \E i \in 1..Len(results) : ExtraKeys(results[i], header)
             \* writerows writes row by row: the rows before the first bad
             \* record are in the file when ValueError is raised
             THEN LET bad == CHOOSE i \in 1..Len(results) :
                               ExtraKeys(results[i], header)
                                /\ \A j \in 1..(i - 1) : ~ExtraKeys(results[j], header)
                  IN /\ phase' = "error" /\ written' = TRUE
                     /\ file' = <<header>> \o [i \in 1..(bad - 1) |-> CsvRow(results[i], header)]
             ELSE /\ phase' = "done" /\ written' = TRUE
                  /\ file' = <<header>> \o [i \in 1..Len(results) |-> CsvRow(results[i], header)]
  /\ UNCHANGED <<maxl, book_links, cpc, page, clicks, ctl, reason, seen,
                 links, idx, gets, outcomes, results>>

InitCollect == Init

NextCollect == CollectPage \/ CheckNext \/ CollectReturn

SpecCollect == InitCollect /\ [][NextCollect]_vars

FairSpecCollect == SpecCollect /\ WF_vars(NextCollect)

\* scrape_book_details called with an arbitrary link list, then save_to_csv
InitScrape ==
  /\ phase = "call"
  /\ maxl \in MaxValues
  /\ links \in InputLists
  /\ book_links = <<>> /\ cpc = "items" /\ page = 1 /\ clicks = 0
  /\ ctl = "none" /\ reason = "none" /\ seen = <<>>
  /\ idx = 1 /\ gets = 0 /\ outcomes = <<>> /\ results = <<>>
  /\ written = FALSE /\ file = <<>>

NextScrape == ScrapeStart \/ ScrapeLink \/ Save

SpecScrape == InitScrape /\ [][NextScrape]_vars

\* ---------------------------------------------------------------------
\* properties
\* ---------------------------------------------------------------------
RECURSIVE FirstSeen(_, _)
FirstSeen(acc, s) ==
  IF s = <<>> THEN acc
  ELSE FirstSeen(IF Truthy(Head(s)) /\ ~InSeq(Head(s), acc) THEN Append(acc, Head(s)) ELSE acc,
                 Tail(s))
NoDup(s) == \A i, j \in 1..Len(s) : i /= j => s[i] /= s[j]
OkPos == SelectSeq([j \in 1..Len(outcomes) |-> j], LAMBDA j : outcomes[j].kind = "ok")
OkOut == [i \in 1..Len(OkPos) |-> outcomes[OkPos[i]]]
Val(r, k) == r[Lookup(r, k)][2]
RowKeys == <<"Title", "Rating", "URL">> \o FormatKeys

\* C1: the list returned by get_book_links has no repeated string and is the
\* truthy hrefs read so far, each kept at its first occurrence.
C1_Dedup == NoDup(book_links) /\ book_links = FirstSeen(<<>>, seen)
\* pages [A,B,C] then [C,D], next control disabled on page 2, no max_links
C1_Witness == phase = "collected" /\ maxl = NoMax /\ clicks = 1
              /\ seen = <<LinkA, LinkB, LinkC, LinkC, LinkD>>
              /\ book_links = <<LinkA, LinkB, LinkC, LinkD>>

\* C2: with max_links = N the list from get_book_links has length <= N and
\* scrape_book_details calls driver.get at most N times.
C2_Bound == maxl /= NoMax => Len(book_links) <= maxl /\ gets <= maxl

\* C3: once the accumulated count has reached max_links, the next-page
\* control is never activated and no further page step continues to it.
C3_StopAtMax == [][(maxl /= NoMax /\ Len(book_links) >= maxl) =>
                     (clicks' = clicks /\ cpc' /= "next")]_vars

\* C4: buttons ["Very Good $5", "Good $3"] give Very Good = "$5", Good = "$3"
\* and N/A for the other six formats.
C4_VeryGoodGood ==
  \A i \in 1..Len(results) :
    (OkOut[i].btns = <<BtnVG5, BtnG3>> /\ OkOut[i].failAt = 0) =>
      /\ Val(results[i], "Very Good") = <<"$", "5">>
      /\ Val(results[i], "Good") = <<"$", "3">>
      /\ \A k \in {"Hardcover", "Paperback", "Library Binding", "Like New",
                    "Acceptable", "New"} : Val(results[i], k) = NA
C4_Witness == \E i \in 1..Len(results) : OkOut[i].btns = <<BtnVG5, BtnG3>> /\ OkOut[i].failAt = 0

\* C5: every record has exactly the keys Title, Rating, URL and the 8 formats;
\* with no buttons all formats are N/A; a format differs from N/A only if its
\* label matched some button text.
C5_Schema ==
  \A i \in 1..Len(results) :
    /\ Keys(results[i]) = RowKeys
    /\ OkOut[i].btns = <<>> => \A k \in 1..8 : Val(results[i], FormatKeys[k]) = NA
    /\ \A k \in 1..8 : Val(results[i], FormatKeys[k]) /= NA =>
         \E b \in 1..Len(OkOut[i].btns) :
           Contains(Strip(OkOut[i].btns[b]), formats[k])
C5_Witness == \E i, j \in 1..Len(results) :
                OkOut[i].btns = <<>> /\ OkOut[j].btns = <<BtnP7, BtnLN4>> /\ OkOut[j].failAt = 2

\* C6: Rating is "N/A" exactly when the meta lookup failed or its value was
\* absent, and otherwise the content value.
C6_Rating ==
  \A i \in 1..Len(results) :
    /\ (Val(results[i], "Rating") = NA <=> OkOut[i].rating \in {"raise", "noattr"})
    /\ OkOut[i].rating = "val" => Val(results[i], "Rating") = <<"4", ".", "5">>

\* C7: failed links emit no record, every link is processed, and the records
\* are those of the successful links in input order with URL = link.
C7_PerLink ==
  /\ Len(outcomes) = idx - 1
  /\ phase = "done" => Len(outcomes) = Len(links)
  /\ Len(results) = Len(OkPos)
  /\ \A i \in 1..Len(results) : Val(results[i], "URL") = links[OkPos[i]]
C7_Witness == phase = "done" /\ Len(outcomes) = 3 /\ outcomes[1].kind = "ok"
              /\ outcomes[2].kind /= "ok" /\ outcomes[3].kind = "ok"

\* C8: a presence-wait timeout ends get_book_links with exactly the links
\* accumulated before that page.
C8_TimeoutPartial == [][(cpc = "items" /\ reason' = "timeout") =>
                          (book_links' = book_links /\ cpc' = "returned")]_vars
C8_Witness == phase = "collected" /\ reason = "timeout" /\ Len(book_links) > 0

\* C9: save_to_csv writes nothing for no records; otherwise a header equal to
\* the first record's keys followed by one row per record, in order.
C9_Csv ==
  phase = "done" =>
    /\ results = <<>> => ~written
    /\ results /= <<>> =>
         /\ written
         /\ file[1] = RowKeys
         /\ Len(file) = Len(results) + 1
         /\ \A i \in 1..Len(results) : \A j \in 1..Len(RowKeys) :
              file[i + 1][j] = Cell(Val(results[i], RowKeys[j]))
         /\ \A i \in 1..Len(results) : file[i + 1][2] /= NoneV
C9_Witness == phase = "done" /\ written /\ Len(results) >= 2
              /\ \E i \in 1..Len(results) : OkOut[i].rating = "noattr"

\* C10: on a finite listing get_book_links terminates, and it activates the
\* next-page control only when it is neither disabled nor aria-disabled.
C10_Terminates == <>(phase = "collected") /\ [][clicks' /= clicks => ctl' = "enabled"]_vars
C10_Witness == phase = "collected" /\ clicks >= 1

====
